---------------------------- MODULE Spec2Model ----------------------------
(***************************************************************************)
(* pygame-multiplayer: the server transport (network/server.py,            *)
(* NetworkServerBase) and the command model (commands/commands.py,         *)
(* BaseCommand and its four variants).                                     *)
(*                                                                         *)
(* Spec      the transport: bind, accept, per-peer send/receive.           *)
(* LiveSpec  the transport with the fairness a blocking accept relies on.  *)
(* CmdSpec   the command model: construct, serialize, deserialize.         *)
(* ConvSpec  the command model with from_client_cmd and to_client_cmd.     *)
(* SentSpec  a command sent by a connector and received by the transport.  *)
(***************************************************************************)
EXTENDS Integers, Sequences, FiniteSets, TLC

(***************************************************************************)
(* Bounds of the model.                                                    *)
(***************************************************************************)
MaxPeers == 2      \* connections that ever arrive at the listening socket
MaxBuf == 2        \* bytes in flight, summed over all peer connections;
                   \* also the largest size and the longest data of a call
MaxArgs == 2       \* named arguments of a command

VARIABLES
    binded,     \* NetworkServerBase._binded
    addr,       \* NetworkServerBase.addr: <<>> for None, else <<host, port>>
    clients,    \* NetworkServerBase.clients, the roster
    listening,  \* whether conn.listen() has been called on the socket
    pending,    \* connections queued at the listening socket, oldest first
    arrived,    \* every connection that ever arrived, oldest first
    inbox,      \* per connection: bytes the peer wrote, not yet read
    outbox,     \* per connection: bytes written to the peer by the server
    closed,     \* connections whose peer has shut down its end
    pc,         \* the call in progress: idle, or a blocked _accept
    last,       \* the last completed call: its arguments and outcome
    cmdIn,      \* the inputs of the command operations
    cmd,        \* the outcome of constructing the command
    wire,       \* the outcome of serialize(): the text for the wire
    decoded,    \* the outcome of deserialize()
    conv,       \* the outcome of from_client_cmd() or to_client_cmd()
    convWire    \* the outcome of serialize() on the converted command

netVars == <<binded, addr, clients, listening, pending, arrived, inbox,
             outbox, closed, pc, last>>
cmdVars == <<cmdIn, cmd, wire, decoded, conv, convWire>>
vars == <<binded, addr, clients, listening, pending, arrived, inbox,
          outbox, closed, pc, last, cmdIn, cmd, wire, decoded, conv,
          convWire>>

-----------------------------------------------------------------------------
(***************************************************************************)
(* Values.                                                                 *)
(***************************************************************************)
Peers == 1..MaxPeers
Bytes == {"a", "b"}
Hosts == {"", "localhost"}
Ports == {0, 8080}
Addrs == {<<"localhost", 8080>>, <<"", 0>>}
Amounts == -1..MaxPeers
Sizes == 0..MaxBuf

\* An optional argument is <<>> for None and <<v>> for the value v.
None == <<>>
Some(v) == <<v>>
OptHosts == {None} \cup {Some(h) : h \in Hosts}
OptPorts == {None} \cup {Some(p) : p \in Ports}

\* The payloads given to Send: "", "a", "ab", "aba", ...
Payload(n) == [i \in 1..n |-> IF i % 2 = 1 THEN "a" ELSE "b"]
Datas == {Payload(n) : n \in 0..MaxBuf}

Min(a, b) == IF a < b THEN a ELSE b
Range(s) == {s[i] : i \in 1..Len(s)}
Take(s, k) == SubSeq(s, 1, k)
Drop(s, k) == SubSeq(s, k + 1, Len(s))
IsPrefix(s, t) == Len(s) <= Len(t) /\ Take(t, Len(s)) = s

RECURSIVE SumLen(_, _)
SumLen(f, S) ==
    IF S = {} THEN 0
    ELSE LET p == CHOOSE q \in S : TRUE
         IN  Len(f[p]) + SumLen(f, S \ {p})

InFlight == SumLen(inbox, Peers) + SumLen(outbox, Peers)


-----------------------------------------------------------------------------
(***************************************************************************)
(* The server transport: NetworkServerBase.                                *)
(***************************************************************************)

\* What a completed call leaves for its caller: the call, the peer or the
\* amount it was given, and its outcome.  status is "ok" (returned),
\* "not_bound" or "not_connected" (the two ConnectionError messages) or
\* "fault" (an OSError of the socket); ret is what _recv returned.
Call(op, status, peer, n, ret) ==
    [op |-> op, status |-> status, peer |-> peer, n |-> n, ret |-> ret,
     host |-> None, port |-> None, auto |-> FALSE]

Idle == [state |-> "idle", amount |-> 0, from |-> <<>>]

\* Python truth value of an optional argument: None is false, and so are the
\* empty str and the int 0.
TruthyStr(x) == x # None /\ x[1] # ""
TruthyInt(x) == x # None /\ x[1] # 0

\* is_binded()
is_binded == binded

\* ClientBase.from_accept(conn, addr): the Peer Handle of an accepted
\* connection.  Two handles are equal exactly when they wrap the same
\* connection.
FromAccept(c) == c

\* A membership test that looks at the newest roster entry only.
NotInRosterNewestOnly(client) ==
    clients = <<>> \/ clients[Len(clients)] # client

\* `client not in self.clients`
NotInRoster(client) == \A i \in 1..Len(clients) : clients[i] # client

\* The branch of __init__ that calls self.bind(host, port).
AutoBinds(host, port, auto_bind) ==
    auto_bind /\ TruthyStr(host) /\ TruthyInt(port)

\* __init__(host, port, auto_bind): the transport a completed constructor
\* yields.  (A constructor whose bind raises yields no transport.)
Construct(host, port, auto_bind) ==
    /\ binded = AutoBinds(host, port, auto_bind)
    /\ addr = IF AutoBinds(host, port, auto_bind)
              THEN <<host[1], port[1]>> ELSE None
    /\ clients = <<>>
    /\ listening = FALSE
    /\ pending = <<>>
    /\ arrived = <<>>
    /\ inbox = [p \in Peers |-> <<>>]
    /\ outbox = [p \in Peers |-> <<>>]
    /\ closed = {}
    /\ pc = Idle
    /\ last = [op |-> "init", status |-> "ok", peer |-> 0, n |-> 0,
               ret |-> <<>>, host |-> host, port |-> port, auto |-> auto_bind]

\* The outcomes of socket.bind(): a socket that is already bound refuses a
\* second bind (EINVAL); otherwise the address may or may not be available.
BindOutcomes == IF binded THEN {FALSE} ELSE BOOLEAN

\* bind(host, port)
Bind(host, port) ==
    /\ pc.state = "idle"
    /\ \E ok \in BindOutcomes :
          /\ addr' = <<host, port>>
          /\ binded' = IF ok THEN TRUE ELSE binded
          /\ last' = Call("bind", IF ok THEN "ok" ELSE "fault", 0, 0, <<>>)
    /\ UNCHANGED <<clients, listening, pending, arrived, inbox, outbox,
                   closed, pc>>
    /\ UNCHANGED cmdVars

\* A loop test that is off by one.
AcceptMoreInclusive(roster, amount) == Len(roster) <= amount

\* The loop test of _accept: `len(self.clients) < amount`.
AcceptMore(roster, amount) == Len(roster) < amount

\* An _accept that puts the socket into listening mode before it tests
\* is_binded().
AcceptCallListenFirst(amount) ==
    /\ pc.state = "idle"
    /\ listening' = TRUE
    /\ IF ~is_binded
       THEN /\ last' = Call("accept", "not_bound", 0, amount, <<>>)
            /\ UNCHANGED pc
       ELSE IF AcceptMore(clients, amount)
            THEN /\ pc' = [state |-> "accept", amount |-> amount,
                           from |-> clients]
                 /\ UNCHANGED last
            ELSE /\ last' = Call("accept", "ok", 0, amount, <<>>)
                 /\ UNCHANGED pc
    /\ UNCHANGED <<binded, addr, clients, pending, arrived, inbox, outbox,
                   closed>>
    /\ UNCHANGED cmdVars

\* An _accept that accepts once before it tests the roster size.
AcceptCallAcceptsFirst(amount) ==
    /\ pc.state = "idle"
    /\ IF ~is_binded
       THEN /\ last' = Call("accept", "not_bound", 0, amount, <<>>)
            /\ UNCHANGED <<listening, pc>>
       ELSE /\ listening' = TRUE
            /\ pc' = [state |-> "accept", amount |-> amount, from |-> clients]
            /\ UNCHANGED last
    /\ UNCHANGED <<binded, addr, clients, pending, arrived, inbox, outbox,
                   closed>>
    /\ UNCHANGED cmdVars

\* An _accept that tests the roster size before it tests is_binded().
AcceptCallSizeFirst(amount) ==
    /\ pc.state = "idle"
    /\ IF ~AcceptMore(clients, amount)
       THEN /\ last' = Call("accept", "ok", 0, amount, <<>>)
            /\ UNCHANGED <<listening, pc>>
       ELSE IF ~is_binded
            THEN /\ last' = Call("accept", "not_bound", 0, amount, <<>>)
                 /\ UNCHANGED <<listening, pc>>
            ELSE /\ listening' = TRUE
                 /\ pc' = [state |-> "accept", amount |-> amount,
                           from |-> clients]
                 /\ UNCHANGED last
    /\ UNCHANGED <<binded, addr, clients, pending, arrived, inbox, outbox,
                   closed>>
    /\ UNCHANGED cmdVars

\* _accept(amount), up to its first blocking conn.accept().
AcceptCall(amount) ==
    /\ pc.state = "idle"
    /\ IF ~is_binded
       THEN /\ last' = Call("accept", "not_bound", 0, amount, <<>>)
            /\ UNCHANGED <<listening, pc>>
       ELSE /\ listening' = TRUE
            /\ IF AcceptMore(clients, amount)
               THEN /\ pc' = [state |-> "accept", amount |-> amount,
                              from |-> clients]
                    /\ UNCHANGED last
               ELSE /\ last' = Call("accept", "ok", 0, amount, <<>>)
                    /\ UNCHANGED pc
    /\ UNCHANGED <<binded, addr, clients, pending, arrived, inbox, outbox,
                   closed>>
    /\ UNCHANGED cmdVars

\* A roster that takes the new peer at its front.
Prepended(roster, c) == <<FromAccept(c)>> \o roster

\* `self.clients.append(_ClientBase.from_accept(*self.conn.accept()))`
Appended(roster, c) == Append(roster, FromAccept(c))

\* One iteration of the loop of _accept: conn.accept() returns the oldest
\* queued connection, which is appended; the loop test is evaluated again.
AcceptStep ==
    /\ pc.state = "accept"
    /\ pending # <<>>
    /\ clients' = Appended(clients, Head(pending))
    /\ pending' = Tail(pending)
    /\ IF AcceptMore(clients', pc.amount)
       THEN UNCHANGED <<pc, last>>
       ELSE /\ pc' = Idle
            /\ last' = Call("accept", "ok", 0, pc.amount, <<>>)
    /\ UNCHANGED <<binded, addr, listening, arrived, inbox, outbox, closed>>
    /\ UNCHANGED cmdVars

\* An _accept that, when conn.accept() raises, takes back the peers it has
\* appended.
AcceptFaultRollsBack ==
    /\ pc.state = "accept"
    /\ pc' = Idle
    /\ clients' = pc.from
    /\ last' = Call("accept", "fault", 0, pc.amount, <<>>)
    /\ UNCHANGED <<binded, addr, listening, pending, arrived, inbox, outbox,
                   closed>>
    /\ UNCHANGED cmdVars

\* conn.accept() raises: the error leaves _accept, the roster stays.
AcceptFault ==
    /\ pc.state = "accept"
    /\ pc' = Idle
    /\ last' = Call("accept", "fault", 0, pc.amount, <<>>)
    /\ UNCHANGED <<binded, addr, clients, listening, pending, arrived,
                   inbox, outbox, closed>>
    /\ UNCHANGED cmdVars

\* Guards that test the roster before is_binded().
GuardRosterFirst(client) ==
    IF NotInRoster(client) THEN "not_connected"
    ELSE IF ~is_binded THEN "not_bound"
    ELSE ""

\* The guards of _recv and _send: "" when the call passes them.
Guard(client) ==
    IF ~is_binded THEN "not_bound"
    ELSE IF NotInRoster(client) THEN "not_connected"
    ELSE ""

\* _recv(size, client).  client.conn.recv(size) is one read: it returns at
\* least one and at most size of the bytes that are there, nothing for size
\* 0 or at the end of a closed connection, and waits otherwise.
Recv(size, client) ==
    /\ pc.state = "idle"
    /\ IF Guard(client) # ""
       THEN /\ last' = Call("recv", Guard(client), client, 0, <<>>)
            /\ UNCHANGED inbox
       ELSE \/ /\ size > 0
               /\ inbox[client] # <<>>
               /\ \E k \in 1..Min(size, Len(inbox[client])) :
                     /\ last' = Call("recv", "ok", client, 0,
                                     Take(inbox[client], k))
                     /\ inbox' = [inbox EXCEPT ![client] = Drop(@, k)]
            \/ /\ size = 0 \/ (inbox[client] = <<>> /\ client \in closed)
               /\ last' = Call("recv", "ok", client, 0, <<>>)
               /\ UNCHANGED inbox
            \/ /\ last' = Call("recv", "fault", client, 0, <<>>)
               /\ UNCHANGED inbox
    /\ UNCHANGED <<binded, addr, clients, listening, pending, arrived,
                   outbox, closed, pc>>
    /\ UNCHANGED cmdVars

\* _send(data, client).  client.conn.send(data) writes a non-empty prefix
\* of data (all of it, or less) and its count is dropped.
Send(data, client) ==
    /\ pc.state = "idle"
    /\ IF Guard(client) # ""
       THEN /\ last' = Call("send", Guard(client), client, 0, <<>>)
            /\ UNCHANGED outbox
       ELSE \/ \E k \in 0..Len(data) :
                  /\ k = 0 => data = <<>>
                  /\ InFlight + k <= MaxBuf
                  /\ outbox' = [outbox EXCEPT ![client] = @ \o Take(data, k)]
                  /\ last' = Call("send", "ok", client, 0, <<>>)
            \/ /\ last' = Call("send", "fault", client, 0, <<>>)
               /\ UNCHANGED outbox
    /\ UNCHANGED <<binded, addr, clients, listening, pending, arrived,
                   inbox, closed, pc>>
    /\ UNCHANGED cmdVars

\* is_binded() called by the application.
IsBound ==
    /\ pc.state = "idle"
    /\ last' = Call("is_binded", IF is_binded THEN "true" ELSE "false",
                    0, 0, <<>>)
    /\ UNCHANGED <<binded, addr, clients, listening, pending, arrived,
                   inbox, outbox, closed, pc>>
    /\ UNCHANGED cmdVars

(***************************************************************************)
(* The network around the transport.                                       *)
(***************************************************************************)

\* A connector opens a connection to the listening socket.
Connect ==
    /\ listening
    /\ Len(arrived) < MaxPeers
    /\ LET c == Len(arrived) + 1
       IN  /\ arrived' = Append(arrived, c)
           /\ pending' = Append(pending, c)
    /\ UNCHANGED <<binded, addr, clients, listening, inbox, outbox, closed,
                   pc, last>>
    /\ UNCHANGED cmdVars

\* A connected peer writes one byte.  (What a peer writes while its
\* connection is still queued is read as if written once it is accepted.)
PeerWrite(c, b) ==
    /\ c \in Range(clients) \ closed
    /\ InFlight < MaxBuf
    /\ inbox' = [inbox EXCEPT ![c] = Append(@, b)]
    /\ UNCHANGED <<binded, addr, clients, listening, pending, arrived,
                   outbox, closed, pc, last>>
    /\ UNCHANGED cmdVars

\* A connected peer shuts its end down.
PeerClose(c) ==
    /\ c \in Range(clients) \ closed
    /\ closed' = closed \cup {c}
    /\ UNCHANGED <<binded, addr, clients, listening, pending, arrived,
                   inbox, outbox, pc, last>>
    /\ UNCHANGED cmdVars


-----------------------------------------------------------------------------
(***************************************************************************)
(* Python values and JSON text.                                            *)
(*                                                                         *)
(* A Python value is a tagged tuple; a dict is the sequence of its         *)
(* <<key, value>> items in insertion order, with str keys.  A JSON text is *)
(* the sequence of its tokens.                                             *)
(***************************************************************************)
PyNone == <<"none">>
PyBool(b) == <<"bool", b>>
PyInt(i) == <<"int", i>>
PyStr(str) == <<"str", str>>
PyList(items) == <<"list", items>>
PyTuple(items) == <<"tuple", items>>
PyDict(items) == <<"dict", items>>
PyPeer(p) == <<"peer", p>>      \* a ClientBase object

DictKeys(items) == {items[i][1] : i \in 1..Len(items)}
DictGet(items, k) == items[CHOOSE i \in 1..Len(items) : items[i][1] = k][2]

\* d[k] = v: a new key goes last, a key that is there keeps its place.
DictPut(items, k, v) ==
    IF k \in DictKeys(items)
    THEN [i \in 1..Len(items) |->
            IF items[i][1] = k THEN <<k, v>> ELSE items[i]]
    ELSE Append(items, <<k, v>>)

\* Python ==
RECURSIVE PyEq(_, _)
PyEq(a, b) ==
    LET num(x) == IF x[1] = "int" THEN x[2] ELSE IF x[2] THEN 1 ELSE 0
    IN  IF a[1] \in {"int", "bool"} /\ b[1] \in {"int", "bool"}
        THEN num(a) = num(b)
        ELSE IF a[1] # b[1] THEN FALSE
        ELSE IF a[1] = "none" THEN TRUE
        ELSE IF a[1] \in {"str", "peer"} THEN a[2] = b[2]
        ELSE IF a[1] \in {"list", "tuple"}
        THEN /\ Len(a[2]) = Len(b[2])
             /\ \A i \in 1..Len(a[2]) : PyEq(a[2][i], b[2][i])
        ELSE /\ DictKeys(a[2]) = DictKeys(b[2])
             /\ \A k \in DictKeys(a[2]) :
                   PyEq(DictGet(a[2], k), DictGet(b[2], k))

\* Whether json.dumps encodes the value (else it raises TypeError).
RECURSIVE Serializable(_)
Serializable(v) ==
    IF v[1] \in {"none", "bool", "int", "str"} THEN TRUE
    ELSE IF v[1] \in {"list", "tuple"}
    THEN \A i \in 1..Len(v[2]) : Serializable(v[2][i])
    ELSE IF v[1] = "dict"
    THEN \A i \in 1..Len(v[2]) : Serializable(v[2][i][2])
    ELSE FALSE

Tok(t) == <<t>>

\* json.dumps(v) for a value it encodes: list and tuple both become an
\* array, a dict an object with its items in order.
RECURSIVE Dumps(_)
RECURSIVE DumpItems(_, _)
RECURSIVE DumpMembers(_, _)
Dumps(v) ==
    IF v[1] = "none" THEN <<Tok("null")>>
    ELSE IF v[1] = "bool"
    THEN <<IF v[2] THEN Tok("true") ELSE Tok("false")>>
    ELSE IF v[1] = "int" THEN <<<<"int", v[2]>>>>
    ELSE IF v[1] = "str" THEN <<<<"str", v[2]>>>>
    ELSE IF v[1] \in {"list", "tuple"}
    THEN <<Tok("[")>> \o DumpItems(v[2], 1) \o <<Tok("]")>>
    ELSE <<Tok("{")>> \o DumpMembers(v[2], 1) \o <<Tok("}")>>
DumpItems(items, i) ==
    IF i > Len(items) THEN <<>>
    ELSE (IF i > 1 THEN <<Tok(",")>> ELSE <<>>)
         \o Dumps(items[i]) \o DumpItems(items, i + 1)
DumpMembers(items, i) ==
    IF i > Len(items) THEN <<>>
    ELSE (IF i > 1 THEN <<Tok(",")>> ELSE <<>>)
         \o <<<<"str", items[i][1]>>, Tok(":")>>
         \o Dumps(items[i][2]) \o DumpMembers(items, i + 1)

\* json.loads(text): a recursive-descent parse of the tokens.  A parse
\* yields the value and the place of the next token, or fails.
ParseFail == [ok |-> FALSE, val |-> PyNone, next |-> 0]
ParseOk(v, n) == [ok |-> TRUE, val |-> v, next |-> n]
Is(t, i, what) == i <= Len(t) /\ t[i][1] = what

RECURSIVE ParseValue(_, _)
RECURSIVE ParseItems(_, _, _)
RECURSIVE ParseMembers(_, _, _)
ParseValue(t, i) ==
    IF i > Len(t) THEN ParseFail
    ELSE IF t[i][1] = "null" THEN ParseOk(PyNone, i + 1)
    ELSE IF t[i][1] = "true" THEN ParseOk(PyBool(TRUE), i + 1)
    ELSE IF t[i][1] = "false" THEN ParseOk(PyBool(FALSE), i + 1)
    ELSE IF t[i][1] = "int" THEN ParseOk(PyInt(t[i][2]), i + 1)
    ELSE IF t[i][1] = "str" THEN ParseOk(PyStr(t[i][2]), i + 1)
    ELSE IF t[i][1] = "["
    THEN IF Is(t, i + 1, "]") THEN ParseOk(PyList(<<>>), i + 2)
         ELSE ParseItems(t, i + 1, <<>>)
    ELSE IF t[i][1] = "{"
    THEN IF Is(t, i + 1, "}") THEN ParseOk(PyDict(<<>>), i + 2)
         ELSE ParseMembers(t, i + 1, <<>>)
    ELSE ParseFail
ParseItems(t, i, acc) ==
    LET r == ParseValue(t, i)
    IN  IF ~r.ok THEN ParseFail
        ELSE IF Is(t, r.next, ",")
        THEN ParseItems(t, r.next + 1, Append(acc, r.val))
        ELSE IF Is(t, r.next, "]")
        THEN ParseOk(PyList(Append(acc, r.val)), r.next + 1)
        ELSE ParseFail
ParseMembers(t, i, acc) ==
    IF ~(Is(t, i, "str") /\ Is(t, i + 1, ":")) THEN ParseFail
    ELSE LET r == ParseValue(t, i + 2)
         IN  IF ~r.ok THEN ParseFail
             ELSE IF Is(t, r.next, ",")
             THEN ParseMembers(t, r.next + 1, DictPut(acc, t[i][2], r.val))
             ELSE IF Is(t, r.next, "}")
             THEN ParseOk(PyDict(DictPut(acc, t[i][2], r.val)), r.next + 1)
             ELSE ParseFail

\* json.loads(text): the whole text is one value, or JSONDecodeError.
Loads(t) ==
    LET r == ParseValue(t, 1)
    IN  IF r.ok /\ r.next = Len(t) + 1 THEN r ELSE ParseFail


-----------------------------------------------------------------------------
(***************************************************************************)
(* The command model: BaseCommand and its variants.                        *)
(***************************************************************************)
PlainClasses == {"ClientCommand", "ServerCommand"}
ServerSideClasses == {"ServerSideClientCommand", "ServerSideServerCommand"}
Classes == PlainClasses \cup ServerSideClasses

\* The outcome of an operation that yields an object: the object, with its
\* class and its __dict__, or the exception raised; "none" before it ran.
Obj(cls, dict) == [status |-> "ok", cls |-> cls, dict |-> dict]
Raised(exc) == [status |-> exc, cls |-> "", dict |-> <<>>]
Nothing == Raised("none")

\* The outcome of an operation that yields a text.
Text(t) == [status |-> "ok", text |-> t]
NoText(status) == [status |-> status, text |-> <<>>]

\* The parameters of __init__ after self: (flag, **kwargs) for BaseCommand,
\* ClientCommand and ServerCommand, (flag, client, **kwargs) for the
\* server-side variants.
InitParams(cls) ==
    IF cls \in ServerSideClasses THEN <<"flag", "client">> ELSE <<"flag">>

\* cls(*pos, **kw): Python binds pos to the first parameters and a keyword
\* that names a parameter to that parameter; a keyword that names self or a
\* parameter already bound, or a parameter left unbound, is a TypeError.
\* The other keywords are kwargs.  __init__ then sets flag and args, and
\* the server-side variants set client after them.
New(cls, pos, kw) ==
    LET params == InitParams(cls)
        names == {params[j] : j \in 1..Len(params)}
        taken == {params[j] : j \in 1..Min(Len(pos), Len(params))} \cup {"self"}
        value(name) ==
            IF name \in taken
            THEN pos[CHOOSE j \in 1..Len(params) : params[j] = name]
            ELSE DictGet(kw, name)
        kwargs == SelectSeq(kw, LAMBDA item : item[1] \notin names)
    IN  IF Len(pos) > Len(params) THEN Raised("TypeError")
        ELSE IF DictKeys(kw) \cap taken # {} THEN Raised("TypeError")
        ELSE IF names \ (taken \cup DictKeys(kw)) # {} THEN Raised("TypeError")
        ELSE Obj(cls, <<<<"flag", value("flag")>>, <<"args", PyDict(kwargs)>>>>
                      \o (IF cls \in ServerSideClasses
                          THEN <<<<"client", value("client")>>>> ELSE <<>>))

\* serialize(): json.dumps(self.__dict__)
serialize(obj) ==
    IF Serializable(PyDict(obj.dict))
    THEN Text(Dumps(PyDict(obj.dict)))
    ELSE NoText("TypeError")

\* A get that yields None for a missing key, whatever the default.
GetWithoutDefault(data, key, default) ==
    IF key \in DictKeys(data[2]) THEN DictGet(data[2], key) ELSE PyNone

\* data.get(key, default)
Get(data, key, default) ==
    IF key \in DictKeys(data[2]) THEN DictGet(data[2], key) ELSE default

\* cls.deserialize(serial):
\*     data = json.loads(serial)
\*     return cls(data.get("flag"), **data.get("args", {}))
deserialize(cls, serial) ==
    LET r == Loads(serial)
        data == r.val
        args == Get(data, "args", PyDict(<<>>))
    IN  IF ~r.ok THEN Raised("JSONDecodeError")
        ELSE IF data[1] # "dict" THEN Raised("AttributeError")
        ELSE IF args[1] # "dict" THEN Raised("TypeError")
        ELSE New(cls, <<Get(data, "flag", PyNone)>>, args[2])

\* The attributes of an object.
Flag(obj) == DictGet(obj.dict, "flag")
Args(obj) == DictGet(obj.dict, "args")

\* cls.from_client_cmd(cmd, client): cls(cmd.flag, client, **cmd.args)
from_client_cmd(cls, command, client) ==
    New(cls, <<Flag(command), client>>, Args(command)[2])

\* A to_client_cmd that moves the peer reference out of the original.
to_client_cmd_strips_self(obj) ==
    [self |-> Obj(obj.cls, SelectSeq(obj.dict,
                                     LAMBDA item : item[1] # "client")),
     ret |-> New("ServerCommand", <<Flag(obj)>>, Args(obj)[2])]

\* A to_client_cmd that copies the whole attribute set of the original.
to_client_cmd_keeps_client(obj) ==
    [self |-> obj, ret |-> Obj("ServerCommand", obj.dict)]

\* obj.to_client_cmd(): ServerCommand(self.flag, **self.args).  self is the
\* object after the call, ret what the call returns.
to_client_cmd(obj) ==
    [self |-> obj, ret |-> New("ServerCommand", <<Flag(obj)>>, Args(obj)[2])]

(***************************************************************************)
(* The inputs of the command operations.                                   *)
(***************************************************************************)
Flags == {PyInt(-1), PyInt(0), PyInt(7)}
Keys == {"x", "msg", "flag", "self", "client"}
Values == {PyNone, PyBool(TRUE), PyInt(1), PyStr("hello"),
           PyList(<<PyInt(1), PyStr("a")>>), PyDict(<<<<"k", PyInt(2)>>>>),
           PyTuple(<<PyInt(1)>>)}

\* The values JSON has: null, booleans, numbers, strings, arrays and
\* objects with string keys.
RECURSIVE IsJSON(_)
IsJSON(v) ==
    IF v[1] \in {"none", "bool", "int", "str"} THEN TRUE
    ELSE IF v[1] = "list" THEN \A i \in 1..Len(v[2]) : IsJSON(v[2][i])
    ELSE IF v[1] = "dict" THEN \A i \in 1..Len(v[2]) : IsJSON(v[2][i][2])
    ELSE FALSE

\* The mappings of at most n named arguments, as items in order.
RECURSIVE ArgsUpTo(_)
ArgsUpTo(n) ==
    IF n = 0 THEN {<<>>}
    ELSE LET fewer == ArgsUpTo(n - 1)
         IN  fewer \cup UNION {{Append(a, <<k, v>>) :
                                  k \in Keys \ DictKeys(a), v \in Values} :
                               a \in fewer}

\* Texts that arrive from the network.
T(str) == <<"str", str>>
N(i) == <<"int", i>>
RawTexts ==
    { \* {"flag": 1, "args": {"x": 1}}
      <<Tok("{"), T("flag"), Tok(":"), N(1), Tok(","), T("args"), Tok(":"),
        Tok("{"), T("x"), Tok(":"), N(1), Tok("}"), Tok("}")>>,
      \* {"args": {"x": 1}}
      <<Tok("{"), T("args"), Tok(":"),
        Tok("{"), T("x"), Tok(":"), N(1), Tok("}"), Tok("}")>>,
      \* {}
      <<Tok("{"), Tok("}")>>,
      \* {"flag": 1}
      <<Tok("{"), T("flag"), Tok(":"), N(1), Tok("}")>>,
      \* {"flag": null, "args": {}}
      <<Tok("{"), T("flag"), Tok(":"), Tok("null"), Tok(","), T("args"),
        Tok(":"), Tok("{"), Tok("}"), Tok("}")>>,
      \* {"flag": "hello", "args": {}}
      <<Tok("{"), T("flag"), Tok(":"), T("hello"), Tok(","), T("args"),
        Tok(":"), Tok("{"), Tok("}"), Tok("}")>>,
      \* {"flag": 1, "args": 5}
      <<Tok("{"), T("flag"), Tok(":"), N(1), Tok(","), T("args"), Tok(":"),
        N(5), Tok("}")>>,
      \* {"flag": 1, "args": {"flag": 2}}
      <<Tok("{"), T("flag"), Tok(":"), N(1), Tok(","), T("args"), Tok(":"),
        Tok("{"), T("flag"), Tok(":"), N(2), Tok("}"), Tok("}")>>,
      \* {"flag": 1, "args": {"client": 3}}
      <<Tok("{"), T("flag"), Tok(":"), N(1), Tok(","), T("args"), Tok(":"),
        Tok("{"), T("client"), Tok(":"), N(3), Tok("}"), Tok("}")>>,
      \* [1]
      <<Tok("["), N(1), Tok("]")>>,
      \* {"flag": 1, "args"
      <<Tok("{"), T("flag"), Tok(":"), N(1), Tok(","), T("args")>>,
      \* {"flag" 1}
      <<Tok("{"), T("flag"), N(1), Tok("}")>>,
      \* the empty text
      <<>> }

CmdInputs ==
    {[mode |-> "construct", cls |-> c, flag |-> f, client |-> PyNone,
      args |-> a, text |-> <<>>] :
        c \in PlainClasses, f \in Flags, a \in ArgsUpTo(MaxArgs)}
    \cup
    {[mode |-> "construct", cls |-> c, flag |-> f, client |-> PyPeer(1),
      args |-> a, text |-> <<>>] :
        c \in ServerSideClasses, f \in Flags, a \in ArgsUpTo(1)}
    \cup
    {[mode |-> "text", cls |-> c, flag |-> PyNone, client |-> PyNone,
      args |-> <<>>, text |-> t] : c \in Classes, t \in RawTexts}

\* The mappings of at most n named arguments over the given keys and
\* values, as items in order.
RECURSIVE ArgsOver(_, _, _)
ArgsOver(keys, values, n) ==
    IF n = 0 THEN {<<>>}
    ELSE LET fewer == ArgsOver(keys, values, n - 1)
         IN  fewer \cup UNION {{Append(a, <<k, v>>) :
                                  k \in keys \ DictKeys(a), v \in values} :
                               a \in fewer}

\* The peer references handed to the server-side variants: Peer Handles,
\* and None, which Python takes for any parameter.
ClientValues == {PyPeer(1), PyPeer(2), PyNone}

\* The inputs of the conversions: for a plain class, client is the peer
\* given to from_client_cmd; for a server-side class, the peer given to
\* the constructor.
ConvInputs ==
    {[mode |-> "construct", cls |-> c, flag |-> f, client |-> p,
      args |-> a, text |-> <<>>] :
        c \in Classes, f \in Flags, p \in ClientValues,
        a \in ArgsOver({"x", "msg", "client", "flag"},
                       {PyInt(1), PyStr("hello"),
                        PyDict(<<<<"k", PyInt(2)>>>>)}, MaxArgs)}

NoInput == [mode |-> "none", cls |-> "", flag |-> PyNone, client |-> PyNone,
            args |-> <<>>, text |-> <<>>]

\* Construct: cls(flag, **args), or cls(flag, client, **args) for a
\* server-side variant.
CmdConstruct ==
    /\ cmdIn.mode = "construct"
    /\ cmd.status = "none"
    /\ cmd' = New(cmdIn.cls,
                  IF cmdIn.cls \in ServerSideClasses
                  THEN <<cmdIn.flag, cmdIn.client>> ELSE <<cmdIn.flag>>,
                  cmdIn.args)
    /\ UNCHANGED <<cmdIn, wire, decoded, conv, convWire>>
    /\ UNCHANGED netVars

\* Serialize: cmd.serialize()
CmdSerialize ==
    /\ cmd.status = "ok"
    /\ wire.status = "none"
    /\ wire' = serialize(cmd)
    /\ UNCHANGED <<cmdIn, cmd, decoded, conv, convWire>>
    /\ UNCHANGED netVars

\* A text arrives from the network.
CmdArrive ==
    /\ cmdIn.mode = "text"
    /\ wire.status = "none"
    /\ wire' = Text(cmdIn.text)
    /\ UNCHANGED <<cmdIn, cmd, decoded, conv, convWire>>
    /\ UNCHANGED netVars

\* Deserialize: cls.deserialize(text)
CmdDeserialize ==
    /\ wire.status = "ok"
    /\ decoded.status = "none"
    /\ decoded' = deserialize(cmdIn.cls, wire.text)
    /\ UNCHANGED <<cmdIn, cmd, wire, conv, convWire>>
    /\ UNCHANGED netVars

\* FromClientCommand: ServerSideClientCommand.from_client_cmd(cmd, client)
\* on a plain command.
CmdFromClientCmd ==
    /\ cmd.status = "ok"
    /\ cmd.cls \in PlainClasses
    /\ conv.status = "none"
    /\ conv' = from_client_cmd("ServerSideClientCommand", cmd, cmdIn.client)
    /\ UNCHANGED <<cmdIn, cmd, wire, decoded, convWire>>
    /\ UNCHANGED netVars

\* ToClientCommand: cmd.to_client_cmd() on a ServerSideServerCommand.
CmdToClientCmd ==
    /\ cmd.status = "ok"
    /\ cmd.cls = "ServerSideServerCommand"
    /\ conv.status = "none"
    /\ cmd' = to_client_cmd(cmd).self
    /\ conv' = to_client_cmd(cmd).ret
    /\ UNCHANGED <<cmdIn, wire, decoded, convWire>>
    /\ UNCHANGED netVars

\* Serialize on the converted command: conv.serialize()
CmdSerializeConv ==
    /\ conv.status = "ok"
    /\ convWire.status = "none"
    /\ convWire' = serialize(conv)
    /\ UNCHANGED <<cmdIn, cmd, wire, decoded, conv>>
    /\ UNCHANGED netVars

(***************************************************************************)
(* Commands over the transport.  A text on a connection is the sequence    *)
(* of its JSON tokens, and a size counts tokens.                           *)
(***************************************************************************)

\* The commands a connector sends.
SentInputs ==
    {[mode |-> "construct", cls |-> "ClientCommand", flag |-> f,
      client |-> PyNone, args |-> a, text |-> <<>>] :
        f \in Flags,
        a \in ArgsOver({"msg", "x"}, {PyStr("hello"), PyInt(1)}, MaxArgs)}

\* The sizes the server reads with: one shorter than any command text, one
\* longer than every command text.
ReadSizes == {4, 1024}

\* The connector serializes its command and writes the text over its
\* connection c.
PeerSendCmd(c) ==
    /\ c \in Range(clients) \ closed
    /\ cmd.status = "ok"
    /\ wire.status = "none"
    /\ wire' = serialize(cmd)
    /\ inbox' = IF wire'.status = "ok"
                THEN [inbox EXCEPT ![c] = @ \o wire'.text]
                ELSE inbox
    /\ UNCHANGED <<binded, addr, clients, listening, pending, arrived,
                   outbox, closed, pc, last>>
    /\ UNCHANGED <<cmdIn, cmd, decoded, conv, convWire>>

\* The server hands what _recv returned to deserialize.
CmdDeserializeReceived ==
    /\ pc.state = "idle"
    /\ last.op = "recv"
    /\ last.status = "ok"
    /\ decoded.status = "none"
    /\ decoded' = deserialize(cmdIn.cls, last.ret)
    /\ UNCHANGED <<cmdIn, cmd, wire, conv, convWire>>
    /\ UNCHANGED netVars

-----------------------------------------------------------------------------
(***************************************************************************)
(* Specifications.                                                         *)
(***************************************************************************)
CmdUnused ==
    /\ cmdIn = NoInput
    /\ cmd = Nothing
    /\ wire = NoText("none")
    /\ decoded = Nothing
    /\ conv = Nothing
    /\ convWire = NoText("none")

Init ==
    /\ \E host \in OptHosts, port \in OptPorts, auto_bind \in BOOLEAN :
          Construct(host, port, auto_bind)
    /\ CmdUnused

Next ==
    \/ \E a \in Addrs : Bind(a[1], a[2])
    \/ \E amount \in Amounts : AcceptCall(amount)
    \/ AcceptStep
    \/ AcceptFault
    \/ \E size \in Sizes, client \in Peers : Recv(size, client)
    \/ \E data \in Datas, client \in Peers : Send(data, client)
    \/ IsBound
    \/ Connect
    \/ \E c \in Peers, b \in Bytes : PeerWrite(c, b)
    \/ \E c \in Peers : PeerClose(c)

Spec == Init /\ [][Next]_vars

CmdInit ==
    /\ Construct(None, None, TRUE)
    /\ cmdIn \in CmdInputs
    /\ cmd = Nothing
    /\ wire = NoText("none")
    /\ decoded = Nothing
    /\ conv = Nothing
    /\ convWire = NoText("none")

CmdNext ==
    \/ CmdConstruct
    \/ CmdSerialize
    \/ CmdArrive
    \/ CmdDeserialize

CmdSpec == CmdInit /\ [][CmdNext]_vars

\* The command model with the conversions between the plain and the
\* server-side variants.
ConvInit ==
    /\ Construct(None, None, TRUE)
    /\ cmdIn \in ConvInputs
    /\ cmd = Nothing
    /\ wire = NoText("none")
    /\ decoded = Nothing
    /\ conv = Nothing
    /\ convWire = NoText("none")

ConvNext ==
    \/ CmdConstruct
    \/ CmdSerialize
    \/ CmdFromClientCmd
    \/ CmdToClientCmd
    \/ CmdSerializeConv

ConvSpec == ConvInit /\ [][ConvNext]_vars

\* The end-to-end scenario: a transport that binds and accepts, connectors
\* that connect, and a connector that sends one command, which the server
\* receives and deserializes.
SentInit ==
    /\ Construct(None, None, TRUE)
    /\ cmdIn \in SentInputs
    /\ cmd = Nothing
    /\ wire = NoText("none")
    /\ decoded = Nothing
    /\ conv = Nothing
    /\ convWire = NoText("none")

SentNext ==
    \/ \E a \in Addrs : Bind(a[1], a[2])
    \/ AcceptCall(1)
    \/ AcceptStep
    \/ Connect
    \/ CmdConstruct
    \/ \E c \in Peers : PeerSendCmd(c)
    \/ \E size \in ReadSizes, client \in Peers : Recv(size, client)
    \/ CmdDeserializeReceived

SentSpec == SentInit /\ [][SentNext]_vars

\* The transport without the byte traffic of its peers: the calls that
\* read or write the bound flag, the roster and the queue of connections.
\* A blocked _accept goes on once a connection is queued, and connectors
\* keep connecting to a listening socket.
LiveNext ==
    \/ \E a \in Addrs : Bind(a[1], a[2])
    \/ \E amount \in Amounts : AcceptCall(amount)
    \/ AcceptStep
    \/ AcceptFault
    \/ \E client \in Peers : Recv(0, client)
    \/ \E client \in Peers : Send(<<>>, client)
    \/ IsBound
    \/ Connect

LiveSpec ==
    Init /\ [][LiveNext]_vars /\ WF_vars(AcceptStep) /\ WF_vars(Connect)

-----------------------------------------------------------------------------
(***************************************************************************)
(* Properties of the transport.                                            *)
(***************************************************************************)
RecvOn(client) == \E size \in Sizes : Recv(size, client)
SendOn(client) == \E data \in Datas : Send(data, client)
Member(client) == client \in Range(clients)

\* C1: on a transport that is not bound, Receive and Send fail with the
\* "not bound" error whatever the size, the data and the peer, also for a
\* peer that is not in the roster.
C1_UnboundFailsNotBound ==
    [][\A client \in Peers :
          ~binded /\ (RecvOn(client) \/ SendOn(client))
          => last'.status = "not_bound"]_vars

C1_Witness ==
    /\ ~binded
    /\ last.op = "send"
    /\ last.status = "not_bound"
    /\ ~Member(last.peer)

\* C2: on a bound transport, Receive and Send fail with the "peer not
\* recognized" error exactly when the peer is not in the roster, whatever
\* else the roster holds.  (With no call in progress, last is the last call
\* and the bound flag and the roster are as that call found them.)
C2_UnknownPeerFails ==
    pc.state = "idle" /\ binded /\ last.op \in {"recv", "send"}
    => /\ last.status = "not_connected" <=> ~Member(last.peer)
       /\ last.status # "not_bound"

C2_Witness ==
    /\ binded
    /\ clients # <<>>
    /\ last.op = "recv"
    /\ last.status = "not_connected"
    /\ ~Member(last.peer)

\* C3: a guarded call whose precondition is violated ends with the
\* connection-state error and changes nothing: the roster, the bound flag,
\* the address, the listening mode of the socket and the bytes of every
\* peer connection stay as they were.
GuardedCall ==
    \/ \E amount \in Amounts : AcceptCall(amount)
    \/ \E client \in Peers : RecvOn(client) \/ SendOn(client)

\* A step that is a guarded call ending with the connection-state error.
FailedCall ==
    /\ pc'.state = "idle"
    /\ last'.status \in {"not_bound", "not_connected"}
    /\ GuardedCall

PreconditionViolated ==
    \/ last.op = "accept" /\ ~binded
    \/ last.op \in {"recv", "send"} /\ (~binded \/ ~Member(last.peer))

C3_FailedCallChangesNothing ==
    /\ [](pc.state = "idle" /\ PreconditionViolated
          => last.status \in {"not_bound", "not_connected"})
    /\ [][\/ UNCHANGED <<binded, addr, clients, listening, pending,
                         arrived, inbox, outbox, closed, pc>>
          \/ ~FailedCall]_vars

C3_Witness ==
    /\ last.op = "send"
    /\ last.status = "not_connected"
    /\ inbox[1] # <<>>
    /\ Len(clients) = 1

\* C4: Accept(amount) on a bound transport whose roster already holds at
\* least amount peers returns at once: a call waits for a connection only
\* when the roster it found was below amount, and a step that ends with no
\* call waiting takes no connection from the queue and leaves the roster as
\* it was, so such a call returns with the roster it found.
C4_AcceptSatisfiedReturns ==
    /\ [](pc.state = "accept" => Len(pc.from) < pc.amount)
    /\ [](pc.state = "idle" /\ last.op = "accept" /\ binded
          => last.status \in {"ok", "fault"})
    /\ [][pc.state = "idle" /\ pc'.state = "idle"
          => clients' = clients /\ IsPrefix(pending, pending')]_vars

C4_Witness ==
    /\ last.op = "accept"
    /\ last.status = "ok"
    /\ last.n = 1
    /\ Len(clients) = 2
    /\ pending = <<>>
    /\ pc.state = "idle"

\* C6: Accept(amount) on a transport that is not bound fails with the "not
\* bound" error for every amount, also one the roster already satisfies,
\* and accepts no connection.
C6_UnboundAcceptFails ==
    [][\A amount \in Amounts :
          ~binded /\ AcceptCall(amount)
          => /\ last' = Call("accept", "not_bound", 0, amount, <<>>)
             /\ pc'.state = "idle"
             /\ clients' = clients
             /\ pending' = pending]_vars

C6_Witness ==
    /\ ~binded
    /\ last.op = "accept"
    /\ last.status = "not_bound"
    /\ last.n = 0
    /\ Len(clients) >= last.n

\* C7: the roster only grows at its end, and only a step of Accept changes
\* it: the roster of a state is a prefix of the roster of the next state.
C7_RosterAppendOnly ==
    [][/\ IsPrefix(clients, clients')
       /\ clients' # clients => pc.state = "accept" /\ Len(clients') = Len(clients) + 1
      ]_vars

C7_Witness ==
    /\ clients = <<1, 2>>
    /\ last.op = "bind"


\* C5: Accept(amount) on a bound transport with fewer than amount peers
\* stays in its loop while the roster is below amount; it returns only with
\* exactly amount peers, the old ones followed by the connections that
\* arrived next, in arrival order; and while connections keep arriving it
\* does come to an end: it returns so, unless conn.accept() raises.
AcceptReturns ==
    pc.state = "accept" /\ pc'.state = "idle" /\ last'.status = "ok"

C5_AcceptFillsRoster ==
    /\ [](pc.state = "accept"
          => /\ Len(clients) < pc.amount
             /\ IsPrefix(pc.from, clients))
    /\ [][AcceptReturns
          => /\ Len(clients') = pc.amount
             /\ clients' = pc.from
                    \o SubSeq(arrived, Len(pc.from) + 1, pc.amount)]_vars
    /\ \A amount \in Amounts :
          (pc.state = "accept" /\ pc.amount = amount)
          ~> /\ pc.state = "idle"
             /\ last.op = "accept"
             /\ \/ last.status = "fault"
                \/ last.status = "ok" /\ Len(clients) = amount

C5_Witness ==
    /\ pc.state = "idle"
    /\ last = Call("accept", "ok", 0, 2, <<>>)
    /\ clients = <<1, 2>>
    /\ arrived = <<1, 2>>

\* C8: Construct(host, port, autoBind) yields a bound transport exactly
\* when host and port are both given and autoBind is true, and otherwise
\* an unbound transport with an empty roster.
C8_ConstructBindsWhenGiven ==
    last.op = "init"
    => /\ binded <=> (last.host # None /\ last.port # None /\ last.auto)
       /\ ~binded => clients = <<>>


BindOn(a) == Bind(a[1], a[2])

\* C16: Bind(host, port) moves the transport to Bound and records
\* (host, port) as its address; a Bind on a transport that is already Bound
\* re-binds it, last wins: the call completes, the transport is still
\* Bound, and the recorded address is the one of the latest Bind; no
\* operation takes a Bound transport back to unbound.
C16_BindRebindsLastWins ==
    [][/\ \A a \in Addrs :
             BindOn(a) /\ (binded \/ last'.status = "ok")
             => last'.status = "ok" /\ binded' /\ addr' = a
       /\ binded => binded']_vars

\* C18: in every reachable state the recorded address is set if and only
\* if the transport is Bound: a fresh unbound transport has no address, a
\* successful Bind sets both, and a Bind whose socket bind fails leaves the
\* bound flag and the recorded address as they were before the call.
C18_AddrSetIffBound ==
    /\ [](addr # None <=> binded)
    /\ [][\A a \in Addrs :
             BindOn(a) /\ last'.status = "fault"
             => binded' = binded /\ addr' = addr]_vars

\* C17: a successful Send(data, peer) writes data to the connection of the
\* given peer only, and a successful Receive(size, peer) is a single read
\* of at most size bytes from the connection of the given peer only (fewer
\* than size or none at all are possible); neither changes the roster, the
\* bound state, or the byte streams of any other peer.
C17_SendRecvFrame ==
    [][\A client \in Peers :
          /\ \A data \in Datas :
                Send(data, client) /\ last'.status = "ok"
                => /\ outbox' = [outbox EXCEPT ![client] = @ \o data]
                   /\ inbox' = inbox
                   /\ clients' = clients /\ binded' = binded
          /\ \A size \in Sizes :
                Recv(size, client) /\ last'.status = "ok"
                => /\ Len(last'.ret) <= size
                   /\ inbox[client] = last'.ret \o inbox'[client]
                   /\ \A other \in Peers \ {client} :
                         inbox'[other] = inbox[other]
                   /\ outbox' = outbox
                   /\ clients' = clients /\ binded' = binded]_vars

\* C19: Accept is not atomic with respect to a fault of the underlying
\* accept: when conn.accept() fails after k connections of an Accept(amount)
\* call were accepted, the call ends with the fault and the roster keeps
\* those k peers, in arrival order, after the peers it had before the call;
\* a later Accept(amount) starts from that roster and accepts only the
\* amount minus roster size connections that remain.
C19_AcceptFaultKeepsPeers ==
    /\ [][pc.state = "accept" /\ pc'.state = "idle"
           /\ last'.status = "fault"
           => /\ last'.op = "accept"
              /\ clients' = clients
              /\ clients = pc.from \o SubSeq(arrived, Len(pc.from) + 1,
                                              Len(clients))]_vars
    /\ [][pc.state = "idle" /\ pc'.state = "accept"
           => pc'.from = clients /\ clients' = clients]_vars
    /\ [][pc.state = "accept" /\ pc'.state = "idle" /\ last'.status = "ok"
           => /\ Len(clients') = pc.amount
              /\ clients' = pc.from \o SubSeq(arrived, Len(pc.from) + 1,
                                               pc.amount)]_vars

C19_Witness ==
    /\ last.op = "accept"
    /\ last.status = "fault"
    /\ last.n = MaxPeers
    /\ pc.state = "accept"
    /\ pc.amount = MaxPeers
    /\ pc.from = <<1>>
    /\ clients = <<1>>

-----------------------------------------------------------------------------
(***************************************************************************)
(* Properties of the command model.                                        *)
(***************************************************************************)
JSONArgs(items) == \A i \in 1..Len(items) : IsJSON(items[i][2])

\* C9: for any integer flag and any args mapping from string keys to
\* JSON-representable values, Deserialize(Serialize(Construct(flag, args)))
\* yields a Command of the same variant with an equal flag and equal args,
\* for ClientCommand and ServerCommand: no step of the round trip raises,
\* and the Command it ends with equals the one it began with.
C9_RoundTrip ==
    /\ cmdIn.mode = "construct"
    /\ cmdIn.cls \in PlainClasses
    /\ JSONArgs(cmdIn.args)
    => /\ cmd.status \in {"none", "ok"}
       /\ wire.status \in {"none", "ok"}
       /\ decoded.status \in {"none", "ok"}
       /\ decoded.status = "ok"
          => /\ decoded.cls = cmdIn.cls
             /\ PyEq(Flag(decoded), cmdIn.flag)
             /\ PyEq(Args(decoded), PyDict(cmdIn.args))

\* C10: Deserialize of a well-formed JSON object that has no flag field, or
\* one that is not an integer, fails: it returns no Command.
FlagMissingOrInvalid(text) ==
    LET r == Loads(text)
    IN  /\ r.ok
        /\ r.val[1] = "dict"
        /\ "flag" \notin DictKeys(r.val[2])
           \/ DictGet(r.val[2], "flag")[1] # "int"

C10_MissingFlagFails ==
    /\ cmdIn.mode = "text"
    /\ FlagMissingOrInvalid(cmdIn.text)
    /\ decoded.status # "none"
    => decoded.status # "ok"

\* The text is a JSON object with a flag field and no args field.
FlagWithoutArgs(text) ==
    LET r == Loads(text)
    IN  /\ r.ok
        /\ r.val[1] = "dict"
        /\ "flag" \in DictKeys(r.val[2])
        /\ "args" \notin DictKeys(r.val[2])

-----------------------------------------------------------------------------
(***************************************************************************)
(* Properties of the conversions.                                          *)
(***************************************************************************)

\* The fields a text encodes, when it is the text of a JSON object.
FieldsOf(text) ==
    LET r == Loads(text)
    IN  IF r.ok /\ r.val[1] = "dict" THEN DictKeys(r.val[2]) ELSE {"?"}

Client(obj) == DictGet(obj.dict, "client")

\* C11: the client attribute of a server-side variant never appears in an
\* encoded text: every text that Serialize returns, for any variant and
\* any peer value, encodes exactly the fields flag and args, and so does
\* Serialize(ToClientCommand(c)) for a ServerSideServerCommand c.
C11_ClientNeverSerialized ==
    /\ wire.status = "ok" => FieldsOf(wire.text) = {"flag", "args"}
    /\ convWire.status = "ok" => FieldsOf(convWire.text) = {"flag", "args"}

\* C12: FromClientCommand(cmd, peer), for any plain Command cmd (whatever
\* its flag and its args, an args key named "client" included) and any
\* peer, returns a ServerSideClientCommand with the flag of cmd, the args
\* of cmd, and the very peer passed in as its client.
C12_FromClientCommandLifts ==
    /\ cmd.status = "ok"
    /\ cmd.cls \in PlainClasses
    /\ conv.status # "none"
    => /\ conv.status = "ok"
       /\ conv.cls = "ServerSideClientCommand"
       /\ Flag(conv) = Flag(cmd)
       /\ Args(conv) = Args(cmd)
       /\ Client(conv) = cmdIn.client

\* C13: ToClientCommand on any ServerSideServerCommand(flag, peer, args)
\* returns a plain ServerCommand with the same flag, an equal args mapping
\* and no peer attribute, and leaves the flag, the args and the client of
\* the original as they were constructed.
C13_ToClientCommandProjects ==
    /\ cmd.status = "ok"
    /\ cmd.cls = "ServerSideServerCommand"
    /\ conv.status # "none"
    => /\ conv.status = "ok"
       /\ conv.cls = "ServerCommand"
       /\ DictKeys(conv.dict) = {"flag", "args"}
       /\ Flag(conv) = cmdIn.flag
       /\ PyEq(Args(conv), PyDict(cmdIn.args))
       /\ cmd = New(cmdIn.cls, <<cmdIn.flag, cmdIn.client>>, cmdIn.args)
       /\ Client(cmd) = cmdIn.client

C13_Witness ==
    /\ cmd.status = "ok"
    /\ cmd.cls = "ServerSideServerCommand"
    /\ Client(cmd) = PyPeer(2)
    /\ Len(Args(cmd)[2]) = MaxArgs
    /\ conv.status = "ok"
    /\ conv.cls = "ServerCommand"
    /\ Len(Args(conv)[2]) = MaxArgs

-----------------------------------------------------------------------------
(***************************************************************************)
(* Properties of commands over the transport.                              *)
(***************************************************************************)

\* C14: end to end: after the transport binds, a connector connects and
\* Accept(1) returns, the roster holds exactly one Peer Handle; when the
\* connector then writes the serialization of a ClientCommand over that
\* connection, what Receive(size, peer) returns on that peer deserializes
\* back into a Command with the flag and the args of the one sent.
C14_EndToEnd ==
    /\ pc.state = "idle" /\ last.op = "accept" /\ last.status = "ok"
       => Len(clients) = 1
    /\ decoded.status # "none"
       => /\ decoded.status = "ok"
          /\ PyEq(Flag(decoded), Flag(cmd))
          /\ PyEq(Args(decoded), Args(cmd))

=============================================================================
